---- MODULE Spec2Model ----
(***************************************************************************)
(* Model of leadgen.js: the sequential lead generation workflow            *)
(* (fetchLeadsFromApollo -> enrichCompaniesWithInsights ->                 *)
(* generateMessagesForCompanies -> saveResultsToCSV / saveResultsToJSON).  *)
(*                                                                         *)
(* A JavaScript string is a sequence of one-character strings, so that     *)
(* includes, trim, toLowerCase, substring, join and template interpolation *)
(* are computed character by character as the code computes them.          *)
(* The JavaScript value undefined is the one-element sequence Undefined.   *)
(***************************************************************************)
EXTENDS Integers, Sequences, FiniteSets, TLC

\* ------------------------------------------------------------------ bounds
\* longest organizations list the lead provider returns in the model
MaxOrgs == 2

\* --------------------------------------------------------- JavaScript values
Undefined == <<"undefined">>

\* JavaScript truthiness of a string-or-undefined value
Truthy(v) == v # Undefined /\ v # <<>>

\* `${v}` : template interpolation of a string-or-undefined value
ToStr(v) == IF v = Undefined THEN <<"u","n","d","e","f","i","n","e","d">> ELSE v

\* `${n}` : decimal digits of a non-negative integer
Digits == <<"0","1","2","3","4","5","6","7","8","9">>

RECURSIVE NumToStr(_)
NumToStr(n) == IF n < 10 THEN <<Digits[n + 1]>>
               ELSE NumToStr(n \div 10) \o <<Digits[(n % 10) + 1]>>

UpperCase == <<"A","B","C","D","E","F","G","H","I","J","K","L","M","N","O","P","Q","R","S","T","U","V",
      "W","X","Y","Z">>

LowerCase == <<"a","b","c","d","e","f","g","h","i","j","k","l","m","n","o","p","q","r","s","t","u","v",
      "w","x","y","z">>

\* String.prototype.toLowerCase
toLowerCase(s) ==
  [i \in 1..Len(s) |->
     IF \E k \in 1..Len(UpperCase) : UpperCase[k] = s[i]
     THEN LowerCase[CHOOSE k \in 1..Len(UpperCase) : UpperCase[k] = s[i]]
     ELSE s[i]]

WhiteSpace == {" ", "\n", "\t"}

\* String.prototype.trim
trim(s) ==
  LET keep == {i \in 1..Len(s) : s[i] \notin WhiteSpace}
  IN  IF keep = {} THEN <<>>
      ELSE SubSeq(s, CHOOSE i \in keep : \A j \in keep : i <= j,
                     CHOOSE i \in keep : \A j \in keep : i >= j)

\* String.prototype.includes
includes(s, k) ==
  \E i \in 0..(Len(s) - Len(k)) : SubSeq(s, i + 1, i + Len(k)) = k

\* String.prototype.substring(0, n)
substring0(s, n) == SubSeq(s, 1, IF Len(s) < n THEN Len(s) ELSE n)

\* Array.prototype.slice(0, n)
slice0(a, n) == SubSeq(a, 1, IF Len(a) < n THEN Len(a) ELSE n)

\* Array.prototype.join
RECURSIVE join(_, _)
join(a, sep) == IF a = <<>> THEN <<>>
                ELSE IF Len(a) = 1 THEN a[1]
                ELSE a[1] \o sep \o join(Tail(a), sep)

\* ------------------------------------------------------ lead source adapter
\* `${org.city || ''}, ${org.state || ''} ${org.country || ''}`.trim()
OrEmpty(v) == IF Truthy(v) THEN v ELSE <<>>

toCompany(org) ==
  [name          |-> org.name,
   website       |-> org.website_url,
   employeeCount |-> org.estimated_num_employees,
   industry      |-> org.industry,
   location      |-> trim(OrEmpty(org.city) \o <<","," ">> \o OrEmpty(org.state)
                          \o <<" ">> \o OrEmpty(org.country))]

transformApolloResponseNameOnly(organizations) ==
  SelectSeq([i \in 1..Len(organizations) |-> toCompany(organizations[i])],
            LAMBDA company : Truthy(company.name))

transformApolloResponse(organizations) ==
  SelectSeq([i \in 1..Len(organizations) |-> toCompany(organizations[i])],
            LAMBDA company : Truthy(company.name) /\ Truthy(company.website))

\* ---------------------------------------------------------- insight enricher
INDUSTRY_KEYS == << <<"S","o","f","t","w","a","r","e">>, <<"D","a","t","a">>, <<"C","l","o","u","d">>, <<"A","I">>, <<"C","y","b","e","r">> >>

INDUSTRY_INSIGHTS ==
  << << <<"U","s","e","s"," ","c","l","o","u","d","-","b","a","s","e","d"," ","d","e","v","e","l",
      "o","p","m","e","n","t"," ","i","n","f","r","a","s","t","r","u","c","t","u","r","e">>,
        <<"R","e","c","e","n","t","l","y"," ","e","x","p","a","n","d","e","d"," ","t","h","e","i",
      "r"," ","e","n","g","i","n","e","e","r","i","n","g"," ","t","e","a","m">>,
        <<"F","o","c","u","s","e","s"," ","o","n"," ","S","a","a","S"," ","s","o","l","u","t","i",
      "o","n","s"," ","f","o","r"," ","e","n","t","e","r","p","r","i","s","e"," ","c","l",
      "i","e","n","t","s">> >>,
     << <<"P","r","o","c","e","s","s","e","s"," ","l","a","r","g","e"," ","d","a","t","a","s","e",
      "t","s"," ","f","o","r"," ","a","n","a","l","y","t","i","c","s">>,
        <<"O","f","f","e","r","s"," ","r","e","a","l","-","t","i","m","e"," ","d","a","t","a"," ",
      "v","i","s","u","a","l","i","z","a","t","i","o","n"," ","t","o","o","l","s">>,
        <<"S","e","r","v","e","s"," ","c","l","i","e","n","t","s"," ","i","n"," ","f","i","n","a",
      "n","c","e"," ","a","n","d"," ","h","e","a","l","t","h","c","a","r","e"," ","s","e",
      "c","t","o","r","s">> >>,
     << <<"S","p","e","c","i","a","l","i","z","e","s"," ","i","n"," ","m","u","l","t","i","-","c",
      "l","o","u","d"," ","d","e","p","l","o","y","m","e","n","t","s">>,
        <<"O","f","f","e","r","s"," ","2","4","/","7"," ","i","n","f","r","a","s","t","r","u","c",
      "t","u","r","e"," ","m","o","n","i","t","o","r","i","n","g">>,
        <<"R","e","c","e","n","t","l","y"," ","a","c","h","i","e","v","e","d"," ","S","O","C"," ",
      "2"," ","c","o","m","p","l","i","a","n","c","e">> >>,
     << <<"D","e","v","e","l","o","p","s"," ","m","a","c","h","i","n","e"," ","l","e","a","r","n",
      "i","n","g"," ","m","o","d","e","l","s">>,
        <<"R","e","q","u","i","r","e","s"," ","h","i","g","h","-","p","e","r","f","o","r","m","a",
      "n","c","e"," ","c","o","m","p","u","t","i","n","g"," ","r","e","s","o","u","r","c",
      "e","s">>,
        <<"F","o","c","u","s"," ","o","n"," ","c","o","m","p","u","t","e","r"," ","v","i","s","i",
      "o","n"," ","a","n","d"," ","N","L","P"," ","a","p","p","l","i","c","a","t","i","o",
      "n","s">> >>,
     << <<"P","r","o","v","i","d","e","s"," ","e","n","t","e","r","p","r","i","s","e"," ","s","e",
      "c","u","r","i","t","y"," ","s","o","l","u","t","i","o","n","s">>,
        <<"O","f","f","e","r","s"," ","t","h","r","e","a","t"," ","d","e","t","e","c","t","i","o",
      "n"," ","a","n","d"," ","r","e","s","p","o","n","s","e"," ","s","e","r","v","i","c",
      "e","s">>,
        <<"C","o","m","p","l","i","a","n","c","e"," ","w","i","t","h"," ","G","D","P","R"," ","a",
      "n","d"," ","H","I","P","A","A"," ","r","e","q","u","i","r","e","m","e","n","t","s">> >> >>

LargeTeamInsight == <<"L","a","r","g","e"," ","t","e","a","m"," ","s","u","g","g","e","s","t","s"," ","s","i",
      "g","n","i","f","i","c","a","n","t"," ","I","T"," ","i","n","f","r","a","s","t","r",
      "u","c","t","u","r","e"," ","n","e","e","d","s">>

GrowingCompanyInsight == <<"G","r","o","w","i","n","g"," ","c","o","m","p","a","n","y"," ","l","i","k","e","l","y",
      " ","e","x","p","a","n","d","i","n","g"," ","t","h","e","i","r"," ","t","e","c","h",
      " ","s","t","a","c","k">>

LimitedIndustryInfo == <<"L","i","m","i","t","e","d"," ","i","n","d","u","s","t","r","y"," ","i","n","f","o","r",
      "m","a","t","i","o","n"," ","a","v","a","i","l","a","b","l","e">>

LimitedWebsiteInfo == <<"L","i","m","i","t","e","d"," ","w","e","b","s","i","t","e"," ","i","n","f","o","r","m",
      "a","t","i","o","n"," ","a","v","a","i","l","a","b","l","e">>

SizeThreshold == 100

getCompanySizeInsights(employeeCount) ==
  IF employeeCount > SizeThreshold THEN LargeTeamInsight
  ELSE GrowingCompanyInsight

\* company.industry.includes(key) throws a TypeError when industry is undefined
generateMockInsightsThrows(company) == company.industry = Undefined

\* Object.keys(INDUSTRY_INSIGHTS).find(key => company.industry.includes(key))
\* 0 stands for "no key found"
industryKey(company) ==
  LET hits == {k \in 1..Len(INDUSTRY_KEYS) :
                 includes(company.industry, INDUSTRY_KEYS[k])}
  IN  IF hits = {} THEN 0 ELSE CHOOSE k \in hits : \A j \in hits : k <= j

generateMockInsights(company) ==
  LET key      == industryKey(company)
      pushed   == IF key # 0 THEN INDUSTRY_INSIGHTS[key] ELSE <<>>
      insights == pushed \o <<getCompanySizeInsights(company.employeeCount)>>
  IN  IF Len(insights) > 0 THEN insights ELSE <<LimitedIndustryInfo>>

MetaDescriptionLimit == 100

TitleLimit == 80

\* page = [metaDescription, title, bodyText]: what cheerio selects from the markup
extractMetadataInsights(page) ==
  (IF Truthy(page.metaDescription)
   THEN << <<"W","e","b","s","i","t","e"," ","f","o","c","u","s",":"," ">>
           \o substring0(page.metaDescription, MetaDescriptionLimit) \o <<".",".",".">> >>
   ELSE <<>>)
  \o
  (IF Truthy(page.title)
   THEN << <<"C","o","m","p","a","n","y"," ","p","o","s","i","t","i","o","n","i","n","g",":"," ">> \o substring0(page.title, TitleLimit) \o <<".",".",".">> >>
   ELSE <<>>)

techKeywords ==
  << <<"c","l","o","u","d">>, <<"a","i">>, <<"m","a","c","h","i","n","e"," ","l","e","a","r","n","i","n","g">>, <<"s","a","a","s">>, <<"a","p","i">>, <<"s","o","f","t","w","a","r","e">>,
     <<"t","e","c","h","n","o","l","o","g","y">>, <<"d","i","g","i","t","a","l">>, <<"a","u","t","o","m","a","t","i","o","n">>, <<"a","n","a","l","y","t","i","c","s">> >>

TechKeywordLimit == 3

extractTechnologyInsights(pageText) ==
  LET foundKeywords == SelectSeq(techKeywords, LAMBDA keyword : includes(pageText, keyword))
  IN  IF Len(foundKeywords) > 0
      THEN << <<"T","e","c","h","n","o","l","o","g","y"," ","f","o","c","u","s",":"," ">> \o join(slice0(foundKeywords, TechKeywordLimit), <<","," ">>) >>
      ELSE <<>>

businessKeywords ==
  << <<"e","n","t","e","r","p","r","i","s","e">>, <<"f","o","r","t","u","n","e">>, <<"c","l","i","e","n","t","s">>, <<"c","u","s","t","o","m","e","r","s">>, <<"g","l","o","b","a","l">>, <<"s","c","a","l","e">>, <<"g","r","o","w","t","h">> >>

BusinessKeywordLimit == 2

extractBusinessInsights(pageText) ==
  LET foundBusinessWords ==
        SelectSeq(businessKeywords, LAMBDA keyword : includes(pageText, keyword))
  IN  IF Len(foundBusinessWords) > 0
      THEN << <<"B","u","s","i","n","e","s","s"," ","i","n","d","i","c","a","t","o","r","s",":"," ">>
              \o join(slice0(foundBusinessWords, BusinessKeywordLimit), <<","," ">>) >>
      ELSE <<>>

websiteInsightsMixed(company, page) ==
  LET pageText == toLowerCase(page.bodyText)
      key      == IF company.industry = Undefined THEN 0 ELSE industryKey(company)
      insights == extractMetadataInsights(page)
                  \o extractTechnologyInsights(pageText)
                  \o extractBusinessInsights(pageText)
                  \o (IF key # 0 THEN INDUSTRY_INSIGHTS[key] ELSE <<>>)
                  \o <<getCompanySizeInsights(company.employeeCount)>>
  IN  IF Len(insights) > 0 THEN insights ELSE <<LimitedWebsiteInfo>>

\* the try branch of scrapeCompanyWebsite, given the parsed page
websiteInsights(company, page) ==
  LET pageText == toLowerCase(page.bodyText)
      insights == extractMetadataInsights(page)
                  \o extractTechnologyInsights(pageText)
                  \o extractBusinessInsights(pageText)
                  \o <<getCompanySizeInsights(company.employeeCount)>>
  IN  IF Len(insights) > 0 THEN insights ELSE <<LimitedWebsiteInfo>>

\* { ...company, insights, lastUpdated }
enrichedRecord(company, insights, time) ==
  [name          |-> company.name,
   website       |-> company.website,
   employeeCount |-> company.employeeCount,
   industry      |-> company.industry,
   location      |-> company.location,
   insights      |-> insights,
   lastUpdated   |-> time]

\* -------------------------------------------------------- message generator
FallbackGreeting == <<"H","i"," ">>

FallbackIntro == <<" ","t","e","a","m",",","\n","\n","I"," ","n","o","t","i","c","e","d"," ","y","o","u","r",
      " ","c","o","m","p","a","n","y"," ","i","n"," ","t","h","e"," ">>

FallbackSpace == <<" ","s","p","a","c","e"," ","w","i","t","h"," ">>

FallbackPitch == <<" ","e","m","p","l","o","y","e","e","s","."," ","B","a","s","e","d"," ","o","n"," ","y",
      "o","u","r"," ","g","r","o","w","t","h"," ","a","n","d"," ","t","e","c","h","n","i",
      "c","a","l"," ","f","o","c","u","s",","," ","I"," ","b","e","l","i","e","v","e"," ",
      "T","e","c","h","H","a","r","d","w","a","r","e"," ","P","r","o"," ","c","o","u","l",
      "d"," ","h","e","l","p"," ","o","p","t","i","m","i","z","e"," ","y","o","u","r"," ",
      "I","T"," ","i","n","f","r","a","s","t","r","u","c","t","u","r","e"," ","w","i","t",
      "h"," ","e","n","t","e","r","p","r","i","s","e","-","g","r","a","d","e"," ","h","a",
      "r","d","w","a","r","e"," ","s","o","l","u","t","i","o","n","s",".","\n","\n">>

FallbackGiven == <<"G","i","v","e","n"," ","y","o","u","r"," ">>

FallbackServers == <<","," ","o","u","r"," ","h","i","g","h","-","p","e","r","f","o","r","m","a","n","c","e",
      " ","s","e","r","v","e","r","s"," ","a","n","d"," ","w","o","r","k","s","t","a","t",
      "i","o","n","s"," ","c","o","u","l","d"," ","s","i","g","n","i","f","i","c","a","n",
      "t","l","y"," ","e","n","h","a","n","c","e"," ","y","o","u","r"," ","o","p","e","r",
      "a","t","i","o","n","s",".">>

FallbackNoInsight == <<"O","u","r"," ","h","a","r","d","w","a","r","e"," ","s","o","l","u","t","i","o","n","s",
      " ","c","o","u","l","d"," ","s","i","g","n","i","f","i","c","a","n","t","l","y"," ",
      "e","n","h","a","n","c","e"," ","y","o","u","r"," ","o","p","e","r","a","t","i","o",
      "n","s",".">>

FallbackClosing == <<"\n","\n","W","o","u","l","d"," ","y","o","u"," ","b","e"," ","o","p","e","n"," ","t","o",
      " ","a"," ","b","r","i","e","f"," ","c","o","n","v","e","r","s","a","t","i","o","n",
      " ","a","b","o","u","t"," ","y","o","u","r"," ","c","u","r","r","e","n","t"," ","h",
      "a","r","d","w","a","r","e"," ","n","e","e","d","s","?","\n","\n","B","e","s","t"," ",
      "r","e","g","a","r","d","s",",","\n","S","a","l","e","s"," ","T","e","a","m"," ","-",
      " ","T","e","c","h","H","a","r","d","w","a","r","e"," ","P","r","o">>

createFallbackMessageNoLowerCase(enrichedCompany) ==
  LET insightText ==
        IF Len(enrichedCompany.insights) > 0 /\ Truthy(enrichedCompany.insights[1])
        THEN FallbackGiven \o enrichedCompany.insights[1] \o FallbackServers
        ELSE FallbackNoInsight
  IN  FallbackGreeting \o ToStr(enrichedCompany.name) \o FallbackIntro
      \o ToStr(enrichedCompany.industry) \o FallbackSpace
      \o NumToStr(enrichedCompany.employeeCount) \o FallbackPitch
      \o insightText \o FallbackClosing

createFallbackMessage(enrichedCompany) ==
  LET insightText ==
        IF Len(enrichedCompany.insights) > 0 /\ Truthy(enrichedCompany.insights[1])
        THEN FallbackGiven \o toLowerCase(enrichedCompany.insights[1]) \o FallbackServers
        ELSE FallbackNoInsight
  IN  FallbackGreeting \o ToStr(enrichedCompany.name) \o FallbackIntro
      \o ToStr(enrichedCompany.industry) \o FallbackSpace
      \o NumToStr(enrichedCompany.employeeCount) \o FallbackPitch
      \o insightText \o FallbackClosing

\* { ...enrichedCompany, personalizedMessage, messageGenerated, aiGenerated }
finalRecord(enrichedCompany, message, time, ai) ==
  [name                |-> enrichedCompany.name,
   website             |-> enrichedCompany.website,
   employeeCount       |-> enrichedCompany.employeeCount,
   industry            |-> enrichedCompany.industry,
   location            |-> enrichedCompany.location,
   insights            |-> enrichedCompany.insights,
   lastUpdated         |-> enrichedCompany.lastUpdated,
   personalizedMessage |-> message,
   messageGenerated    |-> time,
   aiGenerated         |-> ai]

\* the value generatePersonalizedMessage returns, given what the provider call
\* did: "error" (axios.post rejects), "malformed" (the body has no
\* choices[0].message.content string, so reading it throws inside the try),
\* "text" (content is the string outcome.content)
generatePersonalizedMessage(enrichedCompany, outcome, time) ==
  IF outcome.kind = "text"
  THEN finalRecord(enrichedCompany, trim(outcome.content), time, TRUE)
  ELSE finalRecord(enrichedCompany, createFallbackMessage(enrichedCompany), time, FALSE)

\* -------------------------------------------------------------- result sink
InsightSeparator == <<";"," ">>

transformResultsForCSV(results) ==
  [i \in 1..Len(results) |->
     [results[i] EXCEPT !.insights = join(results[i].insights, InsightSeparator)]]

\* results.filter(r => r.aiGenerated).length
aiGeneratedCount(results) ==
  Cardinality({i \in 1..Len(results) : results[i].aiGenerated})

\* ------------------------------------------------- what the outside world does
\* organization records the lead provider may return
OrgPool ==
  { [name |-> <<"A","c","m","e">>, website_url |-> <<"h","t","t","p",":","/","/","a",".","c","o">>, estimated_num_employees |-> 150,
     industry |-> <<"E","n","t","e","r","p","r","i","s","e"," ","S","o","f","t","w","a","r","e">>, city |-> <<"A","u","s","t","i","n">>, state |-> <<"T","X">>,
     country |-> <<"U","S","A">>],
    [name |-> <<"B","o","l","t">>, website_url |-> <<"h","t","t","p",":","/","/","b",".","i","o">>, estimated_num_employees |-> 10,
     industry |-> <<"U","n","k","n","o","w","n"," ","W","i","d","g","e","t","s">>, city |-> Undefined, state |-> Undefined,
     country |-> Undefined],
    [name |-> <<"C","y","r","a">>, website_url |-> <<"h","t","t","p",":","/","/","c",".","a","i">>, estimated_num_employees |-> 100,
     industry |-> Undefined, city |-> Undefined, state |-> <<"C","A">>, country |-> Undefined],
    [name |-> Undefined, website_url |-> <<"h","t","t","p",":","/","/","d",".","c","o">>, estimated_num_employees |-> 60,
     industry |-> <<"D","a","t","a">>, city |-> <<"O","s","l","o">>, state |-> Undefined, country |-> <<"N","O">>],
    [name |-> <<"E","c","h","o">>, website_url |-> <<>>, estimated_num_employees |-> 200,
     industry |-> <<"A","I"," ","C","l","o","u","d">>, city |-> Undefined, state |-> Undefined,
     country |-> <<"U","K">>] }

OrgLists == UNION {[1..n -> OrgPool] : n \in 0..MaxOrgs}

\* response of the lead provider: the request fails, the body has no
\* organizations list, or the body carries a list
ApolloResponses ==
  {[kind |-> "error", organizations |-> <<>>],
   [kind |-> "noOrganizations", organizations |-> <<>>]}
  \cup {[kind |-> "ok", organizations |-> l] : l \in OrgLists}

NoPage == [metaDescription |-> Undefined, title |-> <<>>, bodyText |-> <<>>]

\* parsed pages a website may answer with
Pages ==
  { [metaDescription |-> <<"W","e"," ","b","u","i","l","d"," ","C","l","o","u","d"," ","s","o","f","t","w","a","r",
      "e"," ","a","n","d"," ","S","a","a","S"," ","A","P","I","s"," ","f","o","r"," ","E",
      "n","t","e","r","p","r","i","s","e"," ","c","l","i","e","n","t","s"," ","a","t"," ",
      "g","l","o","b","a","l"," ","s","c","a","l","e",","," ","w","i","t","h"," ","a","n",
      "a","l","y","t","i","c","s"," ","a","n","d"," ","a","u","t","o","m","a","t","i","o",
      "n",".">>,
     title |-> <<"H","o","m","e">>,
     bodyText |-> <<"O","u","r"," ","C","l","o","u","d"," ","S","a","a","S"," ","A","P","I"," ","s","e","r",
      "v","e","s"," ","E","n","t","e","r","p","r","i","s","e"," ","C","l","i","e","n","t",
      "s","."," ","E","m","a","i","l"," ","u","s",".">>],
    NoPage }

WebOutcomes ==
  {[kind |-> "error", page |-> NoPage]} \cup {[kind |-> "ok", page |-> p] : p \in Pages}

\* outcomes of the generative provider call
GenOutcomes ==
  {[kind |-> "error", content |-> <<>>],
   [kind |-> "malformed", content |-> <<>>],
   [kind |-> "text", content |-> <<" "," ","H","e","l","l","o"," ","t","h","e","r","e",".","\n">>],
   [kind |-> "text", content |-> <<" ","\n"," ">>]}

\* --------------------------------------------------------------------- state
VARIABLES
  pc,                \* position of runLeadGeneration
  clock,             \* logical time read by new Date()
  apolloCalls,       \* responses of the lead provider requests issued so far
  companies,         \* const companies (runLeadGeneration)
  enrichedCompanies, \* const enrichedCompanies (enrichCompaniesWithInsights)
  finalResults,      \* const finalResults (generateMessagesForCompanies)
  webCalls,          \* website fetches issued so far, with their outcome
  genCalls,          \* generation calls issued so far, with their outcome
  scrapeDelays,      \* setTimeout(websiteScraping) waits taken so far
  apiDelays,         \* setTimeout(apiCalls) waits taken so far
  displayed,         \* number of leads printed by each displayResults call so far
  csvWrites,         \* csvWriter.writeRecords calls so far: records passed, resolved or not
  jsonWrites,        \* fs.writeFile calls so far: results serialized, resolved or not
  summary,           \* what displaySummary printed
  exitCode           \* status process.exit received

vars == <<pc, clock, apolloCalls, companies, enrichedCompanies, finalResults,
          webCalls, genCalls, scrapeDelays, apiDelays, displayed, csvWrites,
          jsonWrites, summary, exitCode>>

NoSummary == [printed |-> FALSE, total |-> 0, aiGenerated |-> 0]

Init ==
  /\ pc = "start"
  /\ clock = 0
  /\ apolloCalls = <<>>
  /\ companies = <<>>
  /\ enrichedCompanies = <<>>
  /\ finalResults = <<>>
  /\ webCalls = <<>>
  /\ genCalls = <<>>
  /\ scrapeDelays = 0
  /\ apiDelays = 0
  /\ displayed = <<>>
  /\ csvWrites = <<>>
  /\ jsonWrites = <<>>
  /\ summary = NoSummary
  /\ exitCode = 0

\* catch (error) { console.error(...); process.exit(1); } in runLeadGeneration
exitWithError == pc' = "exited" /\ exitCode' = 1

apolloResponseUsableLenient(response) == response.kind # "error"

\* axios.post resolves and response.data?.organizations is truthy
apolloResponseUsable(response) == response.kind = "ok"

\* runLeadGeneration up to and including await fetchLeadsFromApollo(searchCriteria)
fetchLeadsFromApollo ==
  /\ pc = "start"
  /\ \E response \in ApolloResponses :
       /\ apolloCalls' = Append(apolloCalls, response)
       /\ IF apolloResponseUsable(response)
          THEN /\ companies' = transformApolloResponse(response.organizations)
               /\ pc' = "enrich"
               /\ UNCHANGED exitCode
          ELSE /\ exitWithError
               /\ UNCHANGED companies
  /\ clock' = clock + 1
  /\ UNCHANGED <<enrichedCompanies, finalResults, webCalls, genCalls, scrapeDelays,
                 apiDelays, displayed, csvWrites, jsonWrites,
                 summary>>

\* one iteration of the for loop of enrichCompaniesWithInsights, up to the push:
\* await scrapeCompanyWebsite(company)
scrapeCompanyWebsite ==
  /\ pc = "enrich"
  /\ Len(enrichedCompanies) < Len(companies)
  /\ LET company == companies[Len(enrichedCompanies) + 1] IN
     \E outcome \in WebOutcomes :
       /\ webCalls' = Append(webCalls, [website |-> company.website, kind |-> outcome.kind])
       /\ IF outcome.kind = "ok"
          THEN /\ enrichedCompanies' =
                    Append(enrichedCompanies,
                           enrichedRecord(company, websiteInsights(company, outcome.page),
                                          clock + 1))
               /\ pc' = "enrichDelay"
               /\ UNCHANGED exitCode
          ELSE IF generateMockInsightsThrows(company)
          THEN \* the TypeError leaves the catch block and reaches runLeadGeneration
               /\ exitWithError
               /\ UNCHANGED enrichedCompanies
          ELSE /\ enrichedCompanies' =
                    Append(enrichedCompanies,
                           enrichedRecord(company, generateMockInsights(company), clock + 1))
               /\ pc' = "enrichDelay"
               /\ UNCHANGED exitCode
  /\ clock' = clock + 1
  /\ UNCHANGED <<apolloCalls, companies, finalResults, genCalls, scrapeDelays, apiDelays,
                 displayed, csvWrites, jsonWrites, summary>>

\* await new Promise(resolve => setTimeout(resolve, CONFIG.delays.websiteScraping))
scrapeDelay ==
  /\ pc = "enrichDelay"
  /\ scrapeDelays' = scrapeDelays + 1
  /\ clock' = clock + 1
  /\ pc' = "enrich"
  /\ UNCHANGED <<apolloCalls, companies, enrichedCompanies, finalResults, webCalls,
                 genCalls, apiDelays, displayed, csvWrites, jsonWrites, summary, exitCode>>

enrichCompaniesWithInsightsReturnOffByOne ==
  /\ pc = "enrich"
  /\ Len(enrichedCompanies) + 1 >= Len(companies)
  /\ pc' = "generate"
  /\ UNCHANGED <<clock, apolloCalls, companies, enrichedCompanies, finalResults, webCalls,
                 genCalls, scrapeDelays, apiDelays, displayed, csvWrites, jsonWrites,
                 summary, exitCode>>

\* the for loop of enrichCompaniesWithInsights is exhausted: return enrichedCompanies
enrichCompaniesWithInsightsReturn ==
  /\ pc = "enrich"
  /\ Len(enrichedCompanies) = Len(companies)
  /\ pc' = "generate"
  /\ UNCHANGED <<clock, apolloCalls, companies, enrichedCompanies, finalResults, webCalls,
                 genCalls, scrapeDelays, apiDelays, displayed, csvWrites, jsonWrites, summary, exitCode>>

generateMessageRetry ==
  /\ pc = "generate"
  /\ Len(finalResults) < Len(enrichedCompanies)
  /\ LET company == enrichedCompanies[Len(finalResults) + 1] IN
     \E outcome \in GenOutcomes :
       /\ genCalls' = Append(genCalls, [name |-> company.name, kind |-> outcome.kind,
                                        content |-> outcome.content])
       /\ IF outcome.kind = "error" /\ Len(genCalls) <= Len(finalResults)
          THEN \* the rejected call is issued once more
               pc' = "generate" /\ UNCHANGED finalResults
          ELSE /\ finalResults' =
                    Append(finalResults,
                           generatePersonalizedMessage(company, outcome, clock + 1))
               /\ pc' = "generateDelay"
  /\ clock' = clock + 1
  /\ UNCHANGED <<apolloCalls, companies, enrichedCompanies, webCalls, scrapeDelays,
                 apiDelays, displayed, csvWrites, jsonWrites, summary, exitCode>>

\* one iteration of the for loop of generateMessagesForCompanies, up to the push
generateMessage ==
  /\ pc = "generate"
  /\ Len(finalResults) < Len(enrichedCompanies)
  /\ LET company == enrichedCompanies[Len(finalResults) + 1] IN
     \E outcome \in GenOutcomes :
       /\ genCalls' = Append(genCalls, [name |-> company.name, kind |-> outcome.kind,
                                        content |-> outcome.content])
       /\ finalResults' =
            Append(finalResults, generatePersonalizedMessage(company, outcome, clock + 1))
  /\ clock' = clock + 1
  /\ pc' = "generateDelay"
  /\ UNCHANGED <<apolloCalls, companies, enrichedCompanies, webCalls, scrapeDelays,
                 apiDelays, displayed, csvWrites, jsonWrites,
                 summary, exitCode>>

\* await new Promise(resolve => setTimeout(resolve, CONFIG.delays.apiCalls))
apiDelay ==
  /\ pc = "generateDelay"
  /\ apiDelays' = apiDelays + 1
  /\ clock' = clock + 1
  /\ pc' = "generate"
  /\ UNCHANGED <<apolloCalls, companies, enrichedCompanies, finalResults, webCalls,
                 genCalls, scrapeDelays, displayed, csvWrites, jsonWrites, summary, exitCode>>

displayResultsOffByOne ==
  /\ pc = "generate"
  /\ Len(finalResults) + 1 >= Len(enrichedCompanies)
  /\ displayed' = Append(displayed, Len(finalResults))
  /\ pc' = "saveCSV"
  /\ UNCHANGED <<clock, apolloCalls, companies, enrichedCompanies, finalResults, webCalls,
                 genCalls, scrapeDelays, apiDelays, csvWrites, jsonWrites, summary,
                 exitCode>>

\* the for loop of generateMessagesForCompanies is exhausted: return finalResults;
\* runLeadGeneration then calls displayResults(finalResults)
displayResults ==
  /\ pc = "generate"
  /\ Len(finalResults) = Len(enrichedCompanies)
  /\ displayed' = Append(displayed, Len(finalResults))
  /\ pc' = "saveCSV"
  /\ UNCHANGED <<clock, apolloCalls, companies, enrichedCompanies, finalResults, webCalls,
                 genCalls, scrapeDelays, apiDelays, csvWrites, jsonWrites, summary, exitCode>>

saveResultsToCSVSwallowError ==
  /\ pc = "saveCSV"
  /\ \E ok \in BOOLEAN :
       csvWrites' = Append(csvWrites, [data |-> transformResultsForCSV(finalResults),
                                       ok |-> ok])
  /\ pc' = "saveJSON"
  /\ clock' = clock + 1
  /\ UNCHANGED <<apolloCalls, companies, enrichedCompanies, finalResults, webCalls,
                 genCalls, scrapeDelays, apiDelays, displayed, jsonWrites, summary,
                 exitCode>>

\* await saveResultsToCSV(finalResults); the write resolves or rejects
saveResultsToCSV ==
  /\ pc = "saveCSV"
  /\ \E ok \in BOOLEAN :
       /\ csvWrites' = Append(csvWrites, [data |-> transformResultsForCSV(finalResults),
                                          ok |-> ok])
       /\ IF ok THEN pc' = "saveJSON" /\ UNCHANGED exitCode
                ELSE exitWithError
  /\ clock' = clock + 1
  /\ UNCHANGED <<apolloCalls, companies, enrichedCompanies, finalResults, webCalls,
                 genCalls, scrapeDelays, apiDelays, displayed, jsonWrites, summary>>

saveResultsToJSONSkipEmpty ==
  /\ pc = "saveJSON"
  /\ \E ok \in BOOLEAN :
       IF finalResults = <<>>
       THEN pc' = "summary" /\ UNCHANGED <<exitCode, jsonWrites>>
       ELSE /\ jsonWrites' = Append(jsonWrites, [data |-> finalResults, ok |-> ok])
            /\ IF ok THEN pc' = "summary" /\ UNCHANGED exitCode
                     ELSE exitWithError
  /\ clock' = clock + 1
  /\ UNCHANGED <<apolloCalls, companies, enrichedCompanies, finalResults, webCalls,
                 genCalls, scrapeDelays, apiDelays, displayed, csvWrites, summary>>

\* await saveResultsToJSON(finalResults); the write resolves or rejects
saveResultsToJSON ==
  /\ pc = "saveJSON"
  /\ \E ok \in BOOLEAN :
       /\ jsonWrites' = Append(jsonWrites, [data |-> finalResults, ok |-> ok])
       /\ IF ok THEN pc' = "summary" /\ UNCHANGED exitCode
                ELSE exitWithError
  /\ clock' = clock + 1
  /\ UNCHANGED <<apolloCalls, companies, enrichedCompanies, finalResults, webCalls,
                 genCalls, scrapeDelays, apiDelays, displayed, csvWrites, summary>>

\* displaySummary(finalResults); runLeadGeneration returns
displaySummary ==
  /\ pc = "summary"
  /\ summary' = [printed |-> TRUE, total |-> Len(finalResults),
                 aiGenerated |-> aiGeneratedCount(finalResults)]
  /\ pc' = "done"
  /\ UNCHANGED <<clock, apolloCalls, companies, enrichedCompanies, finalResults, webCalls,
                 genCalls, scrapeDelays, apiDelays, displayed, csvWrites, jsonWrites, exitCode>>

Next ==
  \/ fetchLeadsFromApollo
  \/ scrapeCompanyWebsite
  \/ scrapeDelay
  \/ enrichCompaniesWithInsightsReturn
  \/ generateMessage
  \/ apiDelay
  \/ displayResults
  \/ saveResultsToCSV
  \/ saveResultsToJSON
  \/ displaySummary

Spec == Init /\ [][Next]_vars

\* ===================================================================== claims
\* the lead fetch returned a candidate list
fetchSucceeded == apolloCalls # <<>> /\ apolloCalls[1].kind = "ok"

\* runLeadGeneration has returned or the process has exited
runEnded == pc \in {"done", "exited"}

\* an export write rejected
writeFailed ==
  \/ \E k \in 1..Len(csvWrites) : ~csvWrites[k].ok
  \/ \E k \in 1..Len(jsonWrites) : ~jsonWrites[k].ok

\* entry i of a list handed to the sink is candidate i
sameCandidates(list) ==
  /\ Len(list) = Len(companies)
  /\ \A i \in 1..Len(list) :
       list[i].name = companies[i].name /\ list[i].website = companies[i].website

\* C1: whenever the lead fetch succeeded, every list handed to the result sink
\* (printed by displayResults, passed to the CSV write, passed to the JSON write)
\* has exactly as many entries as the list fetchLeadsFromApollo returned, entry i
\* being candidate i, whatever the website fetches and generation calls did.
C1_SinkReceivesEveryCandidate ==
  fetchSucceeded =>
    /\ \A k \in 1..Len(displayed) : displayed[k] = Len(companies)
    /\ \A k \in 1..Len(csvWrites) : sameCandidates(csvWrites[k].data)
    /\ \A k \in 1..Len(jsonWrites) : sameCandidates(jsonWrites[k].data)
    /\ pc \in {"saveCSV", "saveJSON", "summary", "done"} => sameCandidates(finalResults)

C1_Witness ==
  /\ fetchSucceeded
  /\ Len(companies) = 2
  /\ jsonWrites # <<>>
  /\ \E i \in 1..Len(webCalls) : webCalls[i].kind = "error"
  /\ \E i \in 1..Len(webCalls) : webCalls[i].kind = "ok"
  /\ \E i \in 1..Len(genCalls) : genCalls[i].kind = "error"
  /\ \E i \in 1..Len(genCalls) : genCalls[i].kind = "text"

\* C2: a failed website fetch or generation call of a candidate never aborts the
\* run: the process exits with an error only after a failed lead fetch or a
\* failed export write, and every website fetch issued yields an enriched record.
C2_CandidateFailuresAbsorbed ==
  /\ pc = "exited" => (~fetchSucceeded \/ writeFailed)
  /\ pc # "exited" /\ pc # "enrich" => Len(enrichedCompanies) >= Len(webCalls)

\* C3: a record the fallback path built for an industry that contains none of the
\* mapping keys carries the placeholder followed by the company-size insight.
C3_PlaceholderThenSizeInsight ==
  \A i \in 1..Len(enrichedCompanies) :
    (/\ webCalls[i].kind = "error"
     /\ \A k \in 1..Len(INDUSTRY_KEYS) :
          ~includes(enrichedCompanies[i].industry, INDUSTRY_KEYS[k]))
    => enrichedCompanies[i].insights =
         << <<"L","i","m","i","t","e","d"," ","i","n","d","u","s","t","r","y"," ","i","n","f","o","r",
      "m","a","t","i","o","n"," ","a","v","a","i","l","a","b","l","e">>,
            IF enrichedCompanies[i].employeeCount > 100
            THEN <<"L","a","r","g","e"," ","t","e","a","m"," ","s","u","g","g","e","s","t","s"," ","s","i",
      "g","n","i","f","i","c","a","n","t"," ","I","T"," ","i","n","f","r","a","s","t","r",
      "u","c","t","u","r","e"," ","n","e","e","d","s">>
            ELSE <<"G","r","o","w","i","n","g"," ","c","o","m","p","a","n","y"," ","l","i","k","e","l","y",
      " ","e","x","p","a","n","d","i","n","g"," ","t","h","e","i","r"," ","t","e","c","h",
      " ","s","t","a","c","k">> >>

hasPrefix(s, p) == Len(s) >= Len(p) /\ SubSeq(s, 1, Len(p)) = p

\* an insight only the website path writes
websiteDerived(insight) ==
  \/ hasPrefix(insight, <<"W","e","b","s","i","t","e"," ","f","o","c","u","s",":"," ">>)
  \/ hasPrefix(insight, <<"C","o","m","p","a","n","y"," ","p","o","s","i","t","i","o","n","i","n","g",":"," ">>)
  \/ hasPrefix(insight, <<"T","e","c","h","n","o","l","o","g","y"," ","f","o","c","u","s",":"," ">>)
  \/ hasPrefix(insight, <<"B","u","s","i","n","e","s","s"," ","i","n","d","i","c","a","t","o","r","s",":"," ">>)
  \/ insight = <<"L","i","m","i","t","e","d"," ","w","e","b","s","i","t","e"," ","i","n","f","o","r","m",
      "a","t","i","o","n"," ","a","v","a","i","l","a","b","l","e">>

\* an insight only the fallback path writes
cannedIndustryInsight(insight) ==
  \/ \E k \in 1..Len(INDUSTRY_INSIGHTS) :
       \E j \in 1..Len(INDUSTRY_INSIGHTS[k]) : insight = INDUSTRY_INSIGHTS[k][j]
  \/ insight = <<"L","i","m","i","t","e","d"," ","i","n","d","u","s","t","r","y"," ","i","n","f","o","r",
      "m","a","t","i","o","n"," ","a","v","a","i","l","a","b","l","e">>

\* C4: every record scrapeCompanyWebsite returned has at least one insight, and
\* its insights come from one path only: after a successful fetch none of them is
\* a canned industry insight, after a failed fetch none of them is website-derived.
C4_InsightsFromOnePath ==
  \A i \in 1..Len(enrichedCompanies) :
    LET insights == enrichedCompanies[i].insights IN
    /\ Len(insights) >= 1
    /\ webCalls[i].kind = "ok" =>
         \A j \in 1..Len(insights) : ~cannedIndustryInsight(insights[j])
    /\ webCalls[i].kind = "error" =>
         \A j \in 1..Len(insights) : ~websiteDerived(insights[j])

C4_Witness ==
  /\ Len(enrichedCompanies) = 2
  /\ webCalls[1].kind = "ok" /\ Len(enrichedCompanies[1].insights) >= 4
  /\ includes(enrichedCompanies[1].industry, <<"S","o","f","t","w","a","r","e">>)
  /\ webCalls[2].kind = "error" /\ Len(enrichedCompanies[2].insights) = 4

\* C5: every result of generatePersonalizedMessage has a non-empty
\* personalizedMessage, whatever the provider call did.
C5_MessageNonEmpty ==
  \A i \in 1..Len(finalResults) : finalResults[i].personalizedMessage # <<>>

\* the fixed fallback template, interpolated with a result's own fields
fallbackTemplate(r) ==
  <<"H","i"," ">> \o ToStr(r.name)
  \o <<" ","t","e","a","m",",","\n","\n","I"," ","n","o","t","i","c","e","d"," ","y","o","u","r",
      " ","c","o","m","p","a","n","y"," ","i","n"," ","t","h","e"," ">> \o ToStr(r.industry)
  \o <<" ","s","p","a","c","e"," ","w","i","t","h"," ">> \o NumToStr(r.employeeCount)
  \o <<" ","e","m","p","l","o","y","e","e","s","."," ","B","a","s","e","d"," ","o","n"," ","y",
      "o","u","r"," ","g","r","o","w","t","h"," ","a","n","d"," ","t","e","c","h","n","i",
      "c","a","l"," ","f","o","c","u","s",","," ","I"," ","b","e","l","i","e","v","e"," ",
      "T","e","c","h","H","a","r","d","w","a","r","e"," ","P","r","o"," ","c","o","u","l",
      "d"," ","h","e","l","p"," ","o","p","t","i","m","i","z","e"," ","y","o","u","r"," ",
      "I","T"," ","i","n","f","r","a","s","t","r","u","c","t","u","r","e"," ","w","i","t",
      "h"," ","e","n","t","e","r","p","r","i","s","e","-","g","r","a","d","e"," ","h","a",
      "r","d","w","a","r","e"," ","s","o","l","u","t","i","o","n","s",".","\n","\n">>
  \o <<"G","i","v","e","n"," ","y","o","u","r"," ">> \o toLowerCase(r.insights[1])
  \o <<","," ","o","u","r"," ","h","i","g","h","-","p","e","r","f","o","r","m","a","n","c","e",
      " ","s","e","r","v","e","r","s"," ","a","n","d"," ","w","o","r","k","s","t","a","t",
      "i","o","n","s"," ","c","o","u","l","d"," ","s","i","g","n","i","f","i","c","a","n",
      "t","l","y"," ","e","n","h","a","n","c","e"," ","y","o","u","r"," ","o","p","e","r",
      "a","t","i","o","n","s",".">>
  \o <<"\n","\n","W","o","u","l","d"," ","y","o","u"," ","b","e"," ","o","p","e","n"," ","t","o",
      " ","a"," ","b","r","i","e","f"," ","c","o","n","v","e","r","s","a","t","i","o","n",
      " ","a","b","o","u","t"," ","y","o","u","r"," ","c","u","r","r","e","n","t"," ","h",
      "a","r","d","w","a","r","e"," ","n","e","e","d","s","?","\n","\n","B","e","s","t"," ",
      "r","e","g","a","r","d","s",",","\n","S","a","l","e","s"," ","T","e","a","m"," ","-",
      " ","T","e","c","h","H","a","r","d","w","a","r","e"," ","P","r","o">>

\* C6: aiGenerated is true exactly when the provider returned text, and then the
\* message is that text trimmed; it is false exactly when the provider call
\* failed (it rejected, or its body carried no text), and then the message is the
\* fallback template with the candidate's name, industry, employeeCount and first
\* insight in lower case.
C6_ProvenanceMatchesPath ==
  \A i \in 1..Len(finalResults) :
    LET r == finalResults[i]
        call == genCalls[i]
    IN  /\ r.aiGenerated <=> call.kind = "text"
        /\ r.aiGenerated => r.personalizedMessage = trim(call.content)
        /\ ~r.aiGenerated <=> call.kind \in {"error", "malformed"}
        /\ ~r.aiGenerated => r.personalizedMessage = fallbackTemplate(r)

C6_Witness ==
  /\ Len(finalResults) = 2
  /\ ~finalResults[1].aiGenerated /\ genCalls[1].kind = "error"
  /\ \E j \in 1..Len(finalResults[1].insights[1]) :
       finalResults[1].insights[1][j] \in {"W", "L", "G"}
  /\ finalResults[2].aiGenerated /\ finalResults[2].personalizedMessage # <<>>

\* a provider record has a name and a website_url
hasBoth(org) ==
  /\ org.name # Undefined /\ org.name # <<>>
  /\ org.website_url # Undefined /\ org.website_url # <<>>

\* C7: the list transformApolloResponse returns is no longer than the provider's
\* list, every item has a non-empty name and website, and the items are exactly
\* the records that have both, in input order.
C7_OnlyCompleteRecordsKept ==
  fetchSucceeded =>
    LET orgs == apolloCalls[1].organizations
        kept == {i \in 1..Len(orgs) : hasBoth(orgs[i])}
        nth(j) == CHOOSE i \in kept : Cardinality({m \in kept : m < i}) = j - 1
    IN  /\ Len(companies) <= Len(orgs)
        /\ \A j \in 1..Len(companies) :
             /\ companies[j].name # <<>> /\ companies[j].name # Undefined
             /\ companies[j].website # <<>> /\ companies[j].website # Undefined
        /\ Len(companies) = Cardinality(kept)
        /\ \A j \in 1..Len(companies) :
             /\ companies[j].name = orgs[nth(j)].name
             /\ companies[j].website = orgs[nth(j)].website_url
             /\ companies[j].employeeCount = orgs[nth(j)].estimated_num_employees
             /\ companies[j].industry = orgs[nth(j)].industry

C7_Witness ==
  /\ fetchSucceeded
  /\ Len(apolloCalls[1].organizations) = 2
  /\ ~hasBoth(apolloCalls[1].organizations[1])
  /\ apolloCalls[1].organizations[1].name # Undefined
  /\ hasBoth(apolloCalls[1].organizations[2])
  /\ Len(companies) = 1

C9_BothWritesPerformed ==
  (fetchSucceeded /\ companies = <<>>) =>
    /\ webCalls = <<>> /\ genCalls = <<>> /\ scrapeDelays = 0 /\ apiDelays = 0
    /\ runEnded => /\ Len(csvWrites) = 1 /\ csvWrites[1].data = <<>>
                   /\ Len(jsonWrites) = 1 /\ jsonWrites[1].data = <<>>

\* C9 amended: with an empty candidate list no website fetch, generation call or
\* delay happens; a run that has ended performed the CSV write with an empty
\* list, and performed the JSON write with an empty list unless the CSV write
\* failed.
C9_WritesPerformedUnlessCSVFails ==
  (fetchSucceeded /\ companies = <<>>) =>
    /\ webCalls = <<>> /\ genCalls = <<>> /\ scrapeDelays = 0 /\ apiDelays = 0
    /\ \A k \in 1..Len(csvWrites) : csvWrites[k].data = <<>>
    /\ \A k \in 1..Len(jsonWrites) : jsonWrites[k].data = <<>>
    /\ runEnded => /\ Len(csvWrites) = 1
                   /\ csvWrites[1].ok => Len(jsonWrites) = 1
                   /\ ~csvWrites[1].ok => jsonWrites = <<>>

C9_Witness ==
  /\ fetchSucceeded /\ companies = <<>>
  /\ Len(apolloCalls[1].organizations) = 2
  /\ pc = "done"
  /\ csvWrites = <<[data |-> <<>>, ok |-> TRUE]>>
  /\ jsonWrites = <<[data |-> <<>>, ok |-> TRUE]>>

\* C10: once an export write failed the process has exited with status 1 and the
\* success summary is never printed; after a failed CSV write no JSON write is
\* ever attempted.
C10_WriteFailureFailsRun ==
  /\ writeFailed => pc = "exited" /\ exitCode = 1 /\ ~summary.printed
  /\ (\E k \in 1..Len(csvWrites) : ~csvWrites[k].ok) => jsonWrites = <<>>

C10_Witness ==
  /\ pc = "exited"
  /\ Len(finalResults) >= 1
  /\ csvWrites # <<>> /\ ~csvWrites[1].ok

\* position of a pc value in the order source, enricher, generator, sink, end
stageRank(p) ==
  CASE p = "start" -> 0
    [] p \in {"enrich", "enrichDelay"} -> 1
    [] p \in {"generate", "generateDelay"} -> 2
    [] p \in {"saveCSV", "saveJSON", "summary"} -> 3
    [] OTHER -> 4

\* the sink has been handed the results
sinkEntered == displayed # <<>> \/ csvWrites # <<>> \/ jsonWrites # <<>>

\* what has happened before the calls made so far
stagesInOrder ==
  /\ webCalls # <<>> => fetchSucceeded
  /\ genCalls # <<>> =>
       /\ Len(enrichedCompanies) = Len(companies)
       /\ Len(webCalls) = Len(companies)
  /\ sinkEntered =>
       /\ Len(finalResults) = Len(companies)
       /\ Len(genCalls) = Len(companies)
       /\ \A i \in 1..Len(finalResults) : finalResults[i].name = companies[i].name

\* no step goes back to an earlier stage or makes an earlier stage's call
noStageReentered ==
  /\ stageRank(pc') >= stageRank(pc)
  /\ apolloCalls' # apolloCalls => webCalls = <<>> /\ genCalls = <<>> /\ ~sinkEntered
  /\ webCalls' # webCalls => genCalls = <<>> /\ ~sinkEntered
  /\ genCalls' # genCalls => ~sinkEntered
  /\ companies' # companies => pc = "start"
  /\ enrichedCompanies' # enrichedCompanies => pc = "enrich"
  /\ finalResults' # finalResults => pc = "generate"

\* C11: the stages run in the order source, enricher, generator, sink and none is
\* re-entered: a website fetch happens only after the lead fetch returned, a
\* generation call only after every candidate is enriched, an export write or
\* report only after every candidate has its message.
C11_StagesStrictlyForward == []stagesInOrder /\ [][noStageReentered]_vars

C11_Witness ==
  /\ pc = "done"
  /\ Len(companies) = 2
  /\ Len(webCalls) = 2 /\ Len(genCalls) = 2
  /\ Len(csvWrites) = 1 /\ Len(jsonWrites) = 1
  /\ webCalls[2].kind = "error" /\ genCalls[1].kind = "error"

====
